---------------------------- MODULE Spec2Model ----------------------------
(***************************************************************************)
(* Catch-all network transaction types (crates/network/src/any/either.rs)  *)
(* and the Prague payload-field container                                  *)
(* (crates/rpc-types-engine/src/prague.rs).                                *)
(*                                                                         *)
(* Every function of the two files is an operator; the actions apply the   *)
(* operators to values drawn from bounded sets and record the call and its *)
(* outcome in `ret`.                                                       *)
(***************************************************************************)
EXTENDS Integers, Sequences, FiniteSets, TLC

VARIABLES
    env,      \* the AnyTxEnvelope at hand
    typed,    \* the AnyTypedTransaction derived from it (NoValue before)
    out,      \* the output buffer handed to encode_2718
    ret,      \* the last call: its name, arguments and outcome
    maybe     \* the MaybePraguePayloadFields at hand

vars == <<env, typed, out, ret, maybe>>

---------------------------------------------------------------------------
(* Bounds *)

\* type tags range over 0..MaxTy; tags 0..MaxKnownTy are the recognized ones
MaxTy == 3
MaxKnownTy == 1
\* fee values (u128 in the code) range over 0..MaxFee
MaxFee == 1
\* hashes (B256 in the code) range over 0..MaxHash
MaxHash == 1
\* decode input buffers hold at most MaxLen bytes
MaxLen == 3
\* an inclusion list / request list holds at most MaxIl entries
MaxIl == 1

---------------------------------------------------------------------------
(* Option, Result, JSON values *)

None == [tag |-> "None"]
Some(x) == [tag |-> "Some", val |-> x]
Ok(x) == [tag |-> "Ok", val |-> x]
Err(e) == [tag |-> "Err", err |-> e]

Number(n) == [kind |-> "Number", n |-> n]
String(s) == [kind |-> "String", s |-> s]
Object(m) == [kind |-> "Object", map |-> m]

TxType == 0..MaxTy
KnownTxType == 0..MaxKnownTy
Fee == 0..MaxFee
Hash == 0..MaxHash
Byte == 0..(MaxFee + 1)
OptFee == {None} \cup {Some(f) : f \in Fee}

JsonScalar == {Number(n) : n \in TxType} \cup {String("bar")}

\* maps from a subset of the keys K to JSON scalars
Bags(K) == UNION {[D -> JsonScalar] : D \in SUBSET K}

FieldKeys == {"type", "foo"}
JsonKeys == {"type", "gasPrice", "signature", "hash"}

\* all sequences over S of length at most n
SeqsUpTo(S, n) == UNION {[1..k -> S] : k \in 0..n}

---------------------------------------------------------------------------
(* The known (Ethereum) transaction types: alloy_consensus                 *)

\* TypedTransaction: the accessors' answers are part of the value
TypedTransactionSet ==
    [ty : KnownTxType, gas_price : OptFee, max_priority_fee_per_gas : OptFee]

\* TxEnvelope: a signed TypedTransaction
TxEnvelopeSet == [tx : TypedTransactionSet, signature : Fee]

\* TxEnvelope -> TypedTransaction drops the signature
TypedTransaction_from(t) == t.tx

EncOpt(o) == IF o.tag = "None" THEN 0 ELSE o.val + 1
DecOpt(b) == IF b = 0 THEN None ELSE Some(b - 1)

\* the payload bytes of a known envelope
TxEnvelope_payload(t) ==
    <<EncOpt(t.tx.gas_price), EncOpt(t.tx.max_priority_fee_per_gas), t.signature>>

\* legacy (type 0) has no type prefix
TxEnvelope_type_flag(t) == IF t.tx.ty = 0 THEN None ELSE Some(t.tx.ty)

TxEnvelope_encode_2718(t) ==
    (IF t.tx.ty = 0 THEN <<>> ELSE <<t.tx.ty>>) \o TxEnvelope_payload(t)

TxEnvelope_encode_2718_len(t) == Len(TxEnvelope_encode_2718(t))

\* the digest of a known envelope is derived from its content
TxEnvelope_trie_hash(t) ==
    (t.tx.ty + EncOpt(t.tx.gas_price) + EncOpt(t.tx.max_priority_fee_per_gas)
        + t.signature) % (MaxHash + 1)

DecodePayload(ty, buf) ==
    IF Len(buf) < 3 THEN Err("InputTooShort")
    ELSE IF buf[3] > MaxFee THEN Err("Custom")
    ELSE Ok([tx |-> [ty |-> ty, gas_price |-> DecOpt(buf[1]),
                     max_priority_fee_per_gas |-> DecOpt(buf[2])],
             signature |-> buf[3]])

TxEnvelope_typed_decode(ty, buf) ==
    IF ty = 0 \/ ty \notin KnownTxType THEN Err("UnexpectedType")
    ELSE DecodePayload(ty, buf)

TxEnvelope_fallback_decode(buf) == DecodePayload(0, buf)

---------------------------------------------------------------------------
(* The unknown transaction types: crates/network/src/any/unknowns.rs       *)

UnknownTypedTransactionSet ==
    [ty : TxType \ KnownTxType, fields : Bags(FieldKeys),
     gas_price : OptFee, max_priority_fee_per_gas : OptFee]

UnknownTxEnvelopeSet == [hash : Hash, inner : UnknownTypedTransactionSet]

Shapes == {"u64", "String"}

\* serde_json::from_value::<T>(value)
FromValue(shape, v) ==
    IF shape = "u64" /\ v.kind = "Number" THEN Ok(v.n)
    ELSE IF shape = "String" /\ v.kind = "String" THEN Ok(v.s)
    ELSE Err("invalid type")

\* UnknownTypedTransaction::deser_by_key::<T>(key)
UnknownTypedTransaction_deser_by_key(u, shape, key) ==
    IF key \in DOMAIN u.fields THEN Some(FromValue(shape, u.fields[key]))
    ELSE None

---------------------------------------------------------------------------
(* TransactionRequest and WithOtherFields: alloy_rpc_types_eth, alloy_serde *)

\* TransactionRequest::default()
TransactionRequest_default ==
    [ty |-> None, gas_price |-> None, max_priority_fee_per_gas |-> None]

\* TypedTransaction -> TransactionRequest
TransactionRequest_from(tx) ==
    [ty |-> Some(tx.ty), gas_price |-> tx.gas_price,
     max_priority_fee_per_gas |-> tx.max_priority_fee_per_gas]

EmptyFields == [k \in {} |-> Number(0)]

\* WithOtherFields::new(inner): no other fields
WithOtherFields_new(inner) == [inner |-> inner, other |-> EmptyFields]

\* BTreeMap::insert(k, v): sets or overwrites the entry of k
Insert(m, k, v) == [x \in DOMAIN m \cup {k} |-> IF x = k THEN v ELSE m[x]]

---------------------------------------------------------------------------
(* AnyTypedTransaction *)

Ethereum(x) == [variant |-> "Ethereum", inner |-> x]
Unknown(x) == [variant |-> "Unknown", inner |-> x]
NoValue == [variant |-> "NoValue"]

AnyTxEnvelopeSet ==
    {Ethereum(t) : t \in TxEnvelopeSet} \cup {Unknown(u) : u \in UnknownTxEnvelopeSet}

\* variant: an incompatible value is dropped instead of reported
AnyTypedTransaction_deser_by_key_swallow(self, shape, key) ==
    LET r == IF self.variant = "Ethereum" THEN None
             ELSE UnknownTypedTransaction_deser_by_key(self.inner, shape, key)
    IN  IF r.tag = "Some" /\ r.val.tag = "Err" THEN None ELSE r

AnyTypedTransaction_deser_by_key(self, shape, key) ==
    IF self.variant = "Ethereum" THEN None
    ELSE UnknownTypedTransaction_deser_by_key(self.inner, shape, key)

\* variant: the envelope's hash is carried into the field bag
AnyTypedTransaction_from_keep_hash(value) ==
    IF value.variant = "Ethereum"
    THEN [variant |-> "Ethereum", inner |-> TypedTransaction_from(value.inner)]
    ELSE [variant |-> "Unknown",
          inner |-> [value.inner.inner EXCEPT
                        !.fields = Insert(@, "hash", Number(value.inner.hash))]]

\* impl From<AnyTxEnvelope> for AnyTypedTransaction
AnyTypedTransaction_from(value) ==
    IF value.variant = "Ethereum"
    THEN Ethereum(TypedTransaction_from(value.inner))
    ELSE Unknown(value.inner.inner)

\* variant: an existing "type" entry is kept (entry().or_insert)
AnyTypedTransaction_into_request_keep_stale(value) ==
    IF value.variant = "Ethereum"
    THEN WithOtherFields_new(TransactionRequest_from(value.inner))
    ELSE [inner |-> TransactionRequest_default,
          other |-> IF "type" \in DOMAIN value.inner.fields
                    THEN value.inner.fields
                    ELSE Insert(value.inner.fields, "type", Number(value.inner.ty))]

\* impl From<AnyTypedTransaction> for WithOtherFields<TransactionRequest>
AnyTypedTransaction_into_request(value) ==
    IF value.variant = "Ethereum"
    THEN WithOtherFields_new(TransactionRequest_from(value.inner))
    ELSE [inner |-> TransactionRequest_default,
          other |-> Insert(value.inner.fields, "type", Number(value.inner.ty))]

\* impl From<AnyTxEnvelope> for WithOtherFields<TransactionRequest>
AnyTxEnvelope_into_request(value) ==
    AnyTypedTransaction_into_request(AnyTypedTransaction_from(value))

\* both variants answer from the value they hold
AnyTypedTransaction_gas_price(self) == self.inner.gas_price

AnyTypedTransaction_max_priority_fee_per_gas(self) ==
    self.inner.max_priority_fee_per_gas

\* Option::or_else
OrElse(a, b) == IF a.tag = "Some" THEN a ELSE b

\* Option::unwrap_or_default for u128
UnwrapOrDefault(a) == IF a.tag = "Some" THEN a.val ELSE 0

AnyTypedTransaction_priority_fee_or_price(self) ==
    UnwrapOrDefault(OrElse(AnyTypedTransaction_max_priority_fee_per_gas(self),
                           AnyTypedTransaction_gas_price(self)))

---------------------------------------------------------------------------
(* AnyTxEnvelope *)

\* variant: the Ethereum arm reports an error instead of None
AnyTxEnvelope_deser_by_key_known_err(self, shape, key) ==
    IF self.variant = "Ethereum" THEN Some(Err("not an unknown transaction"))
    ELSE UnknownTypedTransaction_deser_by_key(self.inner.inner, shape, key)

AnyTxEnvelope_deser_by_key(self, shape, key) ==
    IF self.variant = "Ethereum" THEN None
    ELSE UnknownTypedTransaction_deser_by_key(self.inner.inner, shape, key)

AnyTxEnvelope_type_flag(self) ==
    IF self.variant = "Ethereum" THEN TxEnvelope_type_flag(self.inner)
    ELSE Some(self.inner.inner.ty)

AnyTxEnvelope_encode_2718_len(self) ==
    IF self.variant = "Ethereum" THEN TxEnvelope_encode_2718_len(self.inner)
    ELSE 1

\* variant: the Unknown arm writes the type byte and returns
AnyTxEnvelope_encode_2718_silent(self, buf) ==
    IF self.variant = "Ethereum"
    THEN [outcome |-> "return", out |-> buf \o TxEnvelope_encode_2718(self.inner)]
    ELSE [outcome |-> "return", out |-> buf \o <<self.inner.inner.ty>>]

\* the outcome of encode_2718(self, out) and the buffer it leaves
AnyTxEnvelope_encode_2718(self, buf) ==
    IF self.variant = "Ethereum"
    THEN [outcome |-> "return", out |-> buf \o TxEnvelope_encode_2718(self.inner)]
    ELSE [outcome |-> "panic",
          msg |-> "Attempted to encode unknown transaction type",
          ty |-> self.inner.inner.ty,
          out |-> buf]

\* variant: the Unknown arm derives the hash from the inner record
AnyTxEnvelope_trie_hash_recomputed(self) ==
    IF self.variant = "Ethereum" THEN TxEnvelope_trie_hash(self.inner)
    ELSE (self.inner.inner.ty + Cardinality(DOMAIN self.inner.inner.fields))
             % (MaxHash + 1)

AnyTxEnvelope_trie_hash(self) ==
    IF self.variant = "Ethereum" THEN TxEnvelope_trie_hash(self.inner)
    ELSE self.inner.hash

\* variant: a rejected input falls back to an Unknown envelope
AnyTxEnvelope_typed_decode_fallback(ty, buf) ==
    LET r == TxEnvelope_typed_decode(ty, buf)
    IN  IF r.tag = "Ok" THEN Ok([variant |-> "Ethereum", inner |-> r.val])
        ELSE Ok([variant |-> "Unknown",
                 inner |-> [hash |-> 0,
                            inner |-> [ty |-> ty, fields |-> EmptyFields,
                                       gas_price |-> None,
                                       max_priority_fee_per_gas |-> None]]])

AnyTxEnvelope_typed_decode(ty, buf) ==
    LET r == TxEnvelope_typed_decode(ty, buf)
    IN  IF r.tag = "Ok" THEN Ok(Ethereum(r.val)) ELSE r

AnyTxEnvelope_fallback_decode(buf) ==
    LET r == TxEnvelope_fallback_decode(buf)
    IN  IF r.tag = "Ok" THEN Ok(Ethereum(r.val)) ELSE r

AnyTxEnvelope_gas_price(self) ==
    IF self.variant = "Ethereum" THEN self.inner.tx.gas_price
    ELSE self.inner.inner.gas_price

AnyTxEnvelope_max_priority_fee_per_gas(self) ==
    IF self.variant = "Ethereum" THEN self.inner.tx.max_priority_fee_per_gas
    ELSE self.inner.inner.max_priority_fee_per_gas

\* variant: the legacy gas price takes precedence
AnyTxEnvelope_priority_fee_or_price_legacy_first(self) ==
    UnwrapOrDefault(OrElse(AnyTxEnvelope_gas_price(self),
                           AnyTxEnvelope_max_priority_fee_per_gas(self)))

AnyTxEnvelope_priority_fee_or_price(self) ==
    UnwrapOrDefault(OrElse(AnyTxEnvelope_max_priority_fee_per_gas(self),
                           AnyTxEnvelope_gas_price(self)))

---------------------------------------------------------------------------
(* JSON decoding: #[serde(untagged)] *)

HasNumber(m, k, max) ==
    k \in DOMAIN m /\ m[k].kind = "Number" /\ m[k].n <= max

\* Deserialize for TypedTransaction
TypedTransaction_deserialize(j) ==
    IF j.kind = "Object" /\ HasNumber(j.map, "type", MaxKnownTy)
                         /\ HasNumber(j.map, "gasPrice", MaxFee)
    THEN Ok([ty |-> j.map["type"].n, gas_price |-> Some(j.map["gasPrice"].n),
             max_priority_fee_per_gas |-> None])
    ELSE Err("data did not match TypedTransaction")

\* Deserialize for TxEnvelope
TxEnvelope_deserialize(j) ==
    LET r == TypedTransaction_deserialize(j)
    IN  IF r.tag = "Ok" /\ HasNumber(j.map, "signature", MaxFee)
        THEN Ok([tx |-> r.val, signature |-> j.map["signature"].n])
        ELSE Err("data did not match TxEnvelope")

\* Deserialize for UnknownTypedTransaction: every field is captured
UnknownTypedTransaction_deserialize(j) ==
    IF j.kind = "Object" /\ HasNumber(j.map, "type", MaxTy)
    THEN Ok([ty |-> j.map["type"].n, fields |-> j.map,
             gas_price |-> IF HasNumber(j.map, "gasPrice", MaxFee)
                           THEN Some(j.map["gasPrice"].n) ELSE None,
             max_priority_fee_per_gas |-> None])
    ELSE Err("data did not match UnknownTypedTransaction")

\* Deserialize for UnknownTxEnvelope
UnknownTxEnvelope_deserialize(j) ==
    LET r == UnknownTypedTransaction_deserialize(j)
    IN  IF r.tag = "Ok" /\ HasNumber(j.map, "hash", MaxHash)
        THEN Ok([hash |-> j.map["hash"].n, inner |-> r.val])
        ELSE Err("data did not match UnknownTxEnvelope")

UntaggedError == Err("data did not match any variant of untagged enum")

\* the derived Deserialize of the untagged enum: the variants in declaration order
AnyTypedTransaction_deserialize(j) ==
    LET k == TypedTransaction_deserialize(j)
        u == UnknownTypedTransaction_deserialize(j)
    IN  IF k.tag = "Ok" THEN Ok(Ethereum(k.val))
        ELSE IF u.tag = "Ok" THEN Ok(Unknown(u.val))
        ELSE UntaggedError

\* variant: the Unknown shape is tried first
AnyTxEnvelope_deserialize_unknown_first(j) ==
    LET k == TxEnvelope_deserialize(j)
        u == UnknownTxEnvelope_deserialize(j)
    IN  IF u.tag = "Ok" THEN Ok([variant |-> "Unknown", inner |-> u.val])
        ELSE IF k.tag = "Ok" THEN Ok([variant |-> "Ethereum", inner |-> k.val])
        ELSE UntaggedError

AnyTxEnvelope_deserialize(j) ==
    LET k == TxEnvelope_deserialize(j)
        u == UnknownTxEnvelope_deserialize(j)
    IN  IF k.tag = "Ok" THEN Ok(Ethereum(k.val))
        ELSE IF u.tag = "Ok" THEN Ok(Unknown(u.val))
        ELSE UntaggedError

JsonInputs == {Object(m) : m \in Bags(JsonKeys)} \cup JsonScalar

---------------------------------------------------------------------------
(* MaybePraguePayloadFields *)

ByteString == SeqsUpTo(Byte, 1)
PraguePayloadFieldsSet ==
    [requests : SeqsUpTo(ByteString, MaxIl), il : SeqsUpTo(ByteString, MaxIl)]

PraguePayloadFields_default == [requests |-> <<>>, il |-> <<>>]

MaybePraguePayloadFields_none == [fields |-> None]

MaybePraguePayloadFields_default == [fields |-> None]

MaybePraguePayloadFields_into_inner(self) == self.fields

MaybePraguePayloadFields_requests(self) ==
    IF self.fields.tag = "Some" THEN Some(self.fields.val.requests) ELSE None

\* variant: an empty inclusion list is reported as absent
MaybePraguePayloadFields_il_nonempty(self) ==
    IF self.fields.tag = "Some" /\ self.fields.val.il # <<>>
    THEN Some(self.fields.val.il) ELSE None

MaybePraguePayloadFields_il(self) ==
    IF self.fields.tag = "Some" THEN Some(self.fields.val.il) ELSE None

MaybePraguePayloadFields_as_ref(self) == self.fields

\* impl From<PraguePayloadFields>
MaybePraguePayloadFields_from(fields) == [fields |-> Some(fields)]

\* impl From<Option<PraguePayloadFields>>
MaybePraguePayloadFields_from_option(fields) == [fields |-> fields]

---------------------------------------------------------------------------
(* Calls on an envelope and on the typed transaction derived from it *)

Return(op, v) == [op |-> op, outcome |-> "return", val |-> v]

Init ==
    /\ env \in AnyTxEnvelopeSet
    /\ typed = NoValue
    /\ out \in {<<>>, <<0>>}   \* the caller's buffer may already hold a byte
    /\ ret = [op |-> "init"]
    /\ maybe = MaybePraguePayloadFields_none

EnvelopeDeserByKey ==
    \E key \in FieldKeys, shape \in Shapes :
        /\ ret' = [op |-> "AnyTxEnvelope::deser_by_key", outcome |-> "return",
                   key |-> key, shape |-> shape,
                   val |-> AnyTxEnvelope_deser_by_key(env, shape, key)]
        /\ UNCHANGED <<env, typed, out, maybe>>

TypeFlag ==
    /\ ret' = Return("AnyTxEnvelope::type_flag", AnyTxEnvelope_type_flag(env))
    /\ UNCHANGED <<env, typed, out, maybe>>

Encode2718Len ==
    /\ ret' = Return("AnyTxEnvelope::encode_2718_len",
                     AnyTxEnvelope_encode_2718_len(env))
    /\ UNCHANGED <<env, typed, out, maybe>>

\* the buffer has room for MaxLen + 1 bytes
Encode2718 ==
    /\ Len(out) + AnyTxEnvelope_encode_2718_len(env) <= MaxLen + 1
    /\ LET r == AnyTxEnvelope_encode_2718(env, out)
       IN  /\ out' = r.out
           /\ ret' = [op |-> "AnyTxEnvelope::encode_2718", outcome |-> r.outcome,
                      before |-> out,
                      panic |-> IF r.outcome = "panic"
                                THEN Some([msg |-> r.msg, ty |-> r.ty])
                                ELSE None]
    /\ UNCHANGED <<env, typed, maybe>>

TrieHash ==
    /\ ret' = Return("AnyTxEnvelope::trie_hash", AnyTxEnvelope_trie_hash(env))
    /\ UNCHANGED <<env, typed, out, maybe>>

EnvelopePriorityFeeOrPrice ==
    /\ ret' = Return("AnyTxEnvelope::priority_fee_or_price",
                     AnyTxEnvelope_priority_fee_or_price(env))
    /\ UNCHANGED <<env, typed, out, maybe>>

EnvelopeIntoRequest ==
    /\ ret' = Return("AnyTxEnvelope::into_request", AnyTxEnvelope_into_request(env))
    /\ UNCHANGED <<env, typed, out, maybe>>

\* AnyTypedTransaction::from(env.clone())
EnvelopeIntoTyped ==
    /\ typed = NoValue
    /\ typed' = AnyTypedTransaction_from(env)
    /\ ret' = Return("AnyTypedTransaction::from", typed')
    /\ UNCHANGED <<env, out, maybe>>

TypedDeserByKey ==
    /\ typed # NoValue
    /\ \E key \in FieldKeys, shape \in Shapes :
           ret' = [op |-> "AnyTypedTransaction::deser_by_key", outcome |-> "return",
                   key |-> key, shape |-> shape,
                   val |-> AnyTypedTransaction_deser_by_key(typed, shape, key)]
    /\ UNCHANGED <<env, typed, out, maybe>>

TypedPriorityFeeOrPrice ==
    /\ typed # NoValue
    /\ ret' = Return("AnyTypedTransaction::priority_fee_or_price",
                     AnyTypedTransaction_priority_fee_or_price(typed))
    /\ UNCHANGED <<env, typed, out, maybe>>

TypedIntoRequest ==
    /\ typed # NoValue
    /\ ret' = Return("AnyTypedTransaction::into_request",
                     AnyTypedTransaction_into_request(typed))
    /\ UNCHANGED <<env, typed, out, maybe>>

Next ==
    \/ EnvelopeDeserByKey
    \/ TypeFlag
    \/ Encode2718Len
    \/ Encode2718
    \/ TrieHash
    \/ EnvelopePriorityFeeOrPrice
    \/ EnvelopeIntoRequest
    \/ EnvelopeIntoTyped
    \/ TypedDeserByKey
    \/ TypedPriorityFeeOrPrice
    \/ TypedIntoRequest

Spec == Init /\ [][Next]_vars

---------------------------------------------------------------------------
(* Binary and JSON decoding: the inputs are drawn per call *)

InitDecode ==
    /\ env = Ethereum([tx |-> [ty |-> 0, gas_price |-> None,
                               max_priority_fee_per_gas |-> None],
                       signature |-> 0])
    /\ typed = NoValue
    /\ out = <<>>
    /\ ret = [op |-> "init"]
    /\ maybe = MaybePraguePayloadFields_none

\* the result of a call is dropped before the next call
Drop ==
    /\ ret.op # "init"
    /\ ret' = [op |-> "init"]
    /\ UNCHANGED <<env, typed, out, maybe>>

TypedDecode ==
    /\ ret.op = "init"
    /\ \E ty \in TxType, buf \in SeqsUpTo(Byte, MaxLen) :
           ret' = [op |-> "AnyTxEnvelope::typed_decode", outcome |-> "return",
                   ty |-> ty, buf |-> buf,
                   val |-> AnyTxEnvelope_typed_decode(ty, buf)]
    /\ UNCHANGED <<env, typed, out, maybe>>

FallbackDecode ==
    /\ ret.op = "init"
    /\ \E buf \in SeqsUpTo(Byte, MaxLen) :
           ret' = [op |-> "AnyTxEnvelope::fallback_decode", outcome |-> "return",
                   buf |-> buf,
                   val |-> AnyTxEnvelope_fallback_decode(buf)]
    /\ UNCHANGED <<env, typed, out, maybe>>

TypedDeserialize ==
    /\ ret.op = "init"
    /\ \E j \in JsonInputs :
           ret' = [op |-> "AnyTypedTransaction::deserialize", outcome |-> "return",
                   json |-> j,
                   val |-> AnyTypedTransaction_deserialize(j)]
    /\ UNCHANGED <<env, typed, out, maybe>>

EnvelopeDeserialize ==
    /\ ret.op = "init"
    /\ \E j \in JsonInputs :
           ret' = [op |-> "AnyTxEnvelope::deserialize", outcome |-> "return",
                   json |-> j,
                   val |-> AnyTxEnvelope_deserialize(j)]
    /\ UNCHANGED <<env, typed, out, maybe>>

NextDecode ==
    \/ Drop
    \/ TypedDecode
    \/ FallbackDecode
    \/ TypedDeserialize
    \/ EnvelopeDeserialize

SpecDecode == InitDecode /\ [][NextDecode]_vars

---------------------------------------------------------------------------
(* The Prague payload-field container *)

InitPrague ==
    /\ env = Ethereum([tx |-> [ty |-> 0, gas_price |-> None,
                               max_priority_fee_per_gas |-> None],
                       signature |-> 0])
    /\ typed = NoValue
    /\ out = <<>>
    /\ ret = [op |-> "init"]
    /\ maybe = MaybePraguePayloadFields_none

OptPraguePayloadFields == {None} \cup {Some(f) : f \in PraguePayloadFieldsSet}

PragueNone ==
    /\ maybe' = MaybePraguePayloadFields_none
    /\ ret' = Return("MaybePraguePayloadFields::none", maybe')
    /\ UNCHANGED <<env, typed, out>>

PragueDefault ==
    /\ maybe' = MaybePraguePayloadFields_default
    /\ ret' = Return("MaybePraguePayloadFields::default", maybe')
    /\ UNCHANGED <<env, typed, out>>

PragueFrom ==
    \E f \in PraguePayloadFieldsSet :
        /\ maybe' = MaybePraguePayloadFields_from(f)
        /\ ret' = Return("MaybePraguePayloadFields::from", maybe')
        /\ UNCHANGED <<env, typed, out>>

PragueFromOption ==
    \E o \in OptPraguePayloadFields :
        /\ maybe' = MaybePraguePayloadFields_from_option(o)
        /\ ret' = Return("MaybePraguePayloadFields::from_option", maybe')
        /\ UNCHANGED <<env, typed, out>>

PragueRequests ==
    /\ ret' = Return("MaybePraguePayloadFields::requests",
                     MaybePraguePayloadFields_requests(maybe))
    /\ UNCHANGED <<env, typed, out, maybe>>

PragueIl ==
    /\ ret' = Return("MaybePraguePayloadFields::il",
                     MaybePraguePayloadFields_il(maybe))
    /\ UNCHANGED <<env, typed, out, maybe>>

PragueAsRef ==
    /\ ret' = Return("MaybePraguePayloadFields::as_ref",
                     MaybePraguePayloadFields_as_ref(maybe))
    /\ UNCHANGED <<env, typed, out, maybe>>

\* into_inner(maybe.clone())
PragueIntoInner ==
    /\ ret' = Return("MaybePraguePayloadFields::into_inner",
                     MaybePraguePayloadFields_into_inner(maybe))
    /\ UNCHANGED <<env, typed, out, maybe>>

NextPrague ==
    \/ PragueNone
    \/ PragueDefault
    \/ PragueFrom
    \/ PragueFromOption
    \/ PragueRequests
    \/ PragueIl
    \/ PragueAsRef
    \/ PragueIntoInner

SpecPrague == InitPrague /\ [][NextPrague]_vars

---------------------------------------------------------------------------
(* Properties *)

IsUnknown(v) == v.variant = "Unknown"

\* C1: encode_2718 on an Unknown envelope panics with a message naming the
\* stored type tag and leaves the output buffer as it was; on an Ethereum
\* envelope it returns, having appended the known envelope's encoding.
C1_EncodeUnknownPanics ==
    ret.op = "AnyTxEnvelope::encode_2718" =>
        IF IsUnknown(env)
        THEN /\ ret.outcome = "panic"
             /\ ret.panic.tag = "Some"
             /\ ret.panic.val.msg = "Attempted to encode unknown transaction type"
             /\ ret.panic.val.ty = env.inner.inner.ty
             /\ out = ret.before
        ELSE /\ ret.outcome = "return"
             /\ ret.panic = None
             /\ out = ret.before \o TxEnvelope_encode_2718(env.inner)

C1_Witness ==
    /\ ret.op = "AnyTxEnvelope::encode_2718"
    /\ IsUnknown(env)
    /\ ret.outcome = "panic"
    /\ ret.before # <<>>
    /\ out = ret.before

\* C2: typed_decode and fallback_decode return an error or the Ethereum
\* variant, never Unknown; an input the known decoder rejects is an error.
C2_DecodeNeverUnknown ==
    /\ ret.op \in {"AnyTxEnvelope::typed_decode", "AnyTxEnvelope::fallback_decode"}
           => (ret.val.tag = "Err" \/ (ret.val.tag = "Ok" /\ ret.val.val.variant = "Ethereum"))
    /\ ret.op = "AnyTxEnvelope::typed_decode"
           => (TxEnvelope_typed_decode(ret.ty, ret.buf).tag = "Err" => ret.val.tag = "Err")
    /\ ret.op = "AnyTxEnvelope::fallback_decode"
           => (TxEnvelope_fallback_decode(ret.buf).tag = "Err" => ret.val.tag = "Err")

C2_Witness ==
    /\ ret.op = "AnyTxEnvelope::typed_decode"
    /\ ret.ty \notin KnownTxType
    /\ Len(ret.buf) = 3
    /\ ret.val.tag = "Err"

\* C3: an Unknown typed transaction with tag t and bag F converts to a request
\* with the default structured part and the bag F with "type" set to t: the
\* other keys keep their values and no key but "type" is added.
C3_UnknownIntoRequest ==
    (ret.op = "AnyTypedTransaction::into_request" /\ IsUnknown(typed)) =>
        LET F == typed.inner.fields
            t == typed.inner.ty
            r == ret.val
        IN  /\ r.inner = TransactionRequest_default
            /\ DOMAIN r.other = DOMAIN F \cup {"type"}
            /\ r.other["type"] = Number(t)
            /\ \A k \in DOMAIN F \ {"type"} : r.other[k] = F[k]

C3_Witness ==
    /\ ret.op = "AnyTypedTransaction::into_request"
    /\ IsUnknown(typed)
    /\ "type" \in DOMAIN typed.inner.fields
    /\ typed.inner.fields["type"] # Number(typed.inner.ty)
    /\ "foo" \in DOMAIN typed.inner.fields

\* C4: deser_by_key returns None exactly when the value is the Ethereum variant
\* or the key is absent from the Unknown record's field bag.
C4_DeserNoneIff ==
    /\ ret.op = "AnyTxEnvelope::deser_by_key" =>
           (ret.val = None <=>
               (~IsUnknown(env) \/ ret.key \notin DOMAIN env.inner.inner.fields))
    /\ ret.op = "AnyTypedTransaction::deser_by_key" =>
           (ret.val = None <=>
               (~IsUnknown(typed) \/ ret.key \notin DOMAIN typed.inner.fields))

C4_Witness ==
    /\ ret.op = "AnyTxEnvelope::deser_by_key"
    /\ IsUnknown(env)
    /\ ret.key \in DOMAIN env.inner.inner.fields
    /\ ret.val.tag = "Some"

\* the stored value has the requested shape
Matches(shape, v) ==
    \/ shape = "u64" /\ v.kind = "Number"
    \/ shape = "String" /\ v.kind = "String"

Payload(v) == IF v.kind = "Number" THEN v.n ELSE v.s

ProbeResultOk(self, r) ==
    (IsUnknown(self.v) /\ r.key \in DOMAIN self.bag) =>
        /\ r.outcome = "return"
        /\ r.val.tag = "Some"
        /\ Matches(r.shape, self.bag[r.key]) => r.val.val = Ok(Payload(self.bag[r.key]))
        /\ ~Matches(r.shape, self.bag[r.key]) => r.val.val.tag = "Err"

C5_ProbeState ==
    /\ ret.op = "AnyTxEnvelope::deser_by_key" =>
           ProbeResultOk([v |-> env, bag |-> IF IsUnknown(env)
                                            THEN env.inner.inner.fields
                                            ELSE EmptyFields], ret)
    /\ ret.op = "AnyTypedTransaction::deser_by_key" =>
           ProbeResultOk([v |-> typed, bag |-> IF IsUnknown(typed)
                                              THEN typed.inner.fields
                                              ELSE EmptyFields], ret)

\* C5: a probe of a present key returns Some(Ok(v)) when the stored value has
\* the requested shape and Some(Err(e)) when it has not, never panics, and
\* leaves the transaction value unchanged.
C5_ProbeReportsErrors ==
    [][(ret'.op \in {"AnyTxEnvelope::deser_by_key",
                     "AnyTypedTransaction::deser_by_key"})
          => (C5_ProbeState' /\ env' = env /\ typed' = typed)]_vars

C5_Witness ==
    /\ ret.op = "AnyTypedTransaction::deser_by_key"
    /\ IsUnknown(typed)
    /\ ret.key \in DOMAIN typed.inner.fields
    /\ ~Matches(ret.shape, typed.inner.fields[ret.key])
    /\ ret.val.tag = "Some"
    /\ ret.val.val.tag = "Err"

FeeRule(p, g) ==
    IF p.tag = "Some" THEN p.val ELSE IF g.tag = "Some" THEN g.val ELSE 0

\* C6: priority_fee_or_price is max_priority_fee_per_gas when present, else
\* gas_price when present, else 0, for both types and both variants.
C6_PriorityFeeOrPrice ==
    /\ ret.op = "AnyTxEnvelope::priority_fee_or_price" =>
           ret.val = FeeRule(AnyTxEnvelope_max_priority_fee_per_gas(env),
                             AnyTxEnvelope_gas_price(env))
    /\ ret.op = "AnyTypedTransaction::priority_fee_or_price" =>
           ret.val = FeeRule(AnyTypedTransaction_max_priority_fee_per_gas(typed),
                             AnyTypedTransaction_gas_price(typed))

C6_Witness ==
    /\ ret.op = "AnyTxEnvelope::priority_fee_or_price"
    /\ IsUnknown(env)
    /\ env.inner.inner.max_priority_fee_per_gas.tag = "Some"
    /\ env.inner.inner.gas_price.tag = "Some"
    /\ env.inner.inner.max_priority_fee_per_gas # env.inner.inner.gas_price
    /\ ret.val = env.inner.inner.max_priority_fee_per_gas.val

\* C7: requests() is None iff il() is None iff as_ref() is None; none() is
\* absent for both accessors; a present bundle with an empty inclusion list
\* reports il() as Some(empty), not None.
C7_PresenceNeverPartial ==
    /\ (MaybePraguePayloadFields_requests(maybe) = None)
           <=> (MaybePraguePayloadFields_as_ref(maybe) = None)
    /\ (MaybePraguePayloadFields_il(maybe) = None)
           <=> (MaybePraguePayloadFields_as_ref(maybe) = None)
    /\ ret.op \in {"MaybePraguePayloadFields::none", "MaybePraguePayloadFields::default"}
           => /\ MaybePraguePayloadFields_requests(ret.val) = None
              /\ MaybePraguePayloadFields_il(ret.val) = None
    /\ ret.op = "MaybePraguePayloadFields::il"
           => (ret.val = None <=> maybe.fields = None)
    /\ ret.op = "MaybePraguePayloadFields::requests"
           => (ret.val = None <=> maybe.fields = None)
    /\ (maybe.fields.tag = "Some" /\ maybe.fields.val.il = <<>>)
           => MaybePraguePayloadFields_il(maybe) = Some(<<>>)

C7_Witness ==
    /\ ret.op = "MaybePraguePayloadFields::il"
    /\ maybe.fields.tag = "Some"
    /\ maybe.fields.val.il = <<>>
    /\ maybe.fields.val.requests # <<>>
    /\ ret.val = Some(<<>>)

\* C8: trie_hash of an Unknown envelope is the hash it was built with,
\* whatever its inner record's type tag and field bag.
C8_TrieHashVerbatim ==
    (ret.op = "AnyTxEnvelope::trie_hash" /\ IsUnknown(env)) =>
        /\ ret.val = env.inner.hash
        /\ \A t \in TxType \ KnownTxType, F \in {EmptyFields, env.inner.inner.fields} :
               AnyTxEnvelope_trie_hash(
                   Unknown([hash |-> env.inner.hash,
                            inner |-> [env.inner.inner EXCEPT !.ty = t, !.fields = F]]))
                 = ret.val

C8_Witness ==
    /\ ret.op = "AnyTxEnvelope::trie_hash"
    /\ IsUnknown(env)
    /\ DOMAIN env.inner.inner.fields # {}
    /\ ret.val = env.inner.hash

UntaggedRule(k, u, r) ==
    /\ k.tag = "Ok" => r = Ok(Ethereum(k.val))
    /\ (k.tag = "Err" /\ u.tag = "Ok") => r = Ok(Unknown(u.val))
    /\ r.tag = "Err" <=> (k.tag = "Err" /\ u.tag = "Err")

\* C9: JSON decoding yields the Ethereum variant whenever the input parses as
\* the Known shape, Unknown only when the Known parse fails and the Unknown
\* parse succeeds, and an error only when both fail.
C9_KnownShapeFirst ==
    /\ ret.op = "AnyTypedTransaction::deserialize" =>
           UntaggedRule(TypedTransaction_deserialize(ret.json),
                        UnknownTypedTransaction_deserialize(ret.json), ret.val)
    /\ ret.op = "AnyTxEnvelope::deserialize" =>
           UntaggedRule(TxEnvelope_deserialize(ret.json),
                        UnknownTxEnvelope_deserialize(ret.json), ret.val)

C9_Witness ==
    /\ ret.op = "AnyTxEnvelope::deserialize"
    /\ TxEnvelope_deserialize(ret.json).tag = "Ok"
    /\ UnknownTxEnvelope_deserialize(ret.json).tag = "Ok"
    /\ ret.val.tag = "Ok"
    /\ ret.val.val.variant = "Ethereum"

\* C10: envelope -> typed keeps the variant and maps Unknown(H, R) to exactly
\* Unknown(R); the request of an envelope equals the request of its typed
\* transaction, and for Unknown envelopes does not depend on H.
C10_EnvelopeIntoTyped ==
    /\ typed # NoValue =>
           /\ typed.variant = env.variant
           /\ IsUnknown(env) => typed = Unknown(env.inner.inner)
    /\ (ret.op = "AnyTypedTransaction::into_request" /\ typed # NoValue) =>
           ret.val = AnyTxEnvelope_into_request(env)
    /\ (ret.op = "AnyTxEnvelope::into_request" /\ typed # NoValue) =>
           ret.val = AnyTypedTransaction_into_request(typed)
    /\ (ret.op = "AnyTxEnvelope::into_request" /\ IsUnknown(env)) =>
           \A h \in Hash :
               AnyTxEnvelope_into_request(Unknown([env.inner EXCEPT !.hash = h]))
                 = ret.val

C10_Witness ==
    /\ ret.op = "AnyTypedTransaction::into_request"
    /\ IsUnknown(env)
    /\ typed = Unknown(env.inner.inner)
    /\ env.inner.hash # 0
    /\ ret.val = AnyTxEnvelope_into_request(env)

===========================================================================
